---------------------------- MODULE Spec2Model ----------------------------
(***************************************************************************)
(* Model of project.py: the notebook link scanner and rewriter of the      *)
(* google-gemini/cookbook link updating script.                            *)
(*                                                                         *)
(* Text is modelled as a sequence of tokens.  Every token is either one    *)
(* of the punctuation characters the regular expressions of the script     *)
(* treat specially ("/", "[", "]", "(", ")", " ") or a run of ordinary     *)
(* characters that contains none of them, so a character class of the      *)
(* script ([^/]+, [^\s\)\]]*, ...) is a run of tokens and a literal of a   *)
(* pattern is a fixed sequence of tokens.                                  *)
(***************************************************************************)
EXTENDS Integers, Sequences, FiniteSets, TLC

(***************************************************************************)
(* Bounds of the model.                                                    *)
(***************************************************************************)
\* deepest directory a notebook sits in
MaxDepth == 2
\* most items (links, words) on a generated markdown line
MaxItems == 2
\* most notebooks in a tree taken from the catalogue of notebooks
MaxDocs == 2
\* most runs of main on the same tree
MaxRuns == 2

(***************************************************************************)
(* Token sequences of the literals in the patterns.                        *)
(***************************************************************************)
\* https://github.com/google-gemini/cookbook
RepoUrl == <<"https:", "/", "/", "github.com", "/", "google-gemini", "/", "cookbook">>

\* https://github.com/google-gemini/cookbook/blob/
BlobPrefix == RepoUrl \o <<"/", "blob", "/">>

\* https://github.com/google-gemini/cookbook/tree/
TreePrefix == RepoUrl \o <<"/", "tree", "/">>

\* the string 'gemini-1.5-archive'
ArchiveMarker == <<"gemini-1.5-archive">>

\* the string 'https://'
HttpsScheme == <<"https:", "/", "/">>

\* the string 'google-gemini/cookbook'
RepoName == <<"google-gemini", "/", "cookbook">>

\* ([0-9a-f]{7,40}|main|master|old): c0ffee1 stands for the hex hashes
IsRevision(tok) == tok \in {"c0ffee1", "main", "master", "old"}

\* the characters [^\s\)\]] excludes
PathStop == {" ", ")", "]"}

\* the characters [^/\s] excludes
SegmentStop == {"/", " "}

(***************************************************************************)
(* Helpers on token sequences.                                             *)
(***************************************************************************)
\* s[i..] starts with p
StartsWithAt(s, i, p) ==
    /\ i >= 1
    /\ i + Len(p) - 1 <= Len(s)
    /\ \A k \in 1..Len(p) : s[i + k - 1] = p[k]

\* `p in s` of Python: p occurs in s as a substring
Contains(s, p) == \E i \in 1..Len(s) : StartsWithAt(s, i, p)

\* last index of the longest run of tokens outside stop that starts at i
\* (i - 1 when the run is empty): a greedy character class
RECURSIVE RunEnd(_, _, _)
RunEnd(s, i, stop) ==
    IF i > Len(s) \/ s[i] \in stop THEN i - 1 ELSE RunEnd(s, i + 1, stop)

\* n copies of p
RECURSIVE Repeat(_, _)
Repeat(p, n) == IF n <= 0 THEN <<>> ELSE p \o Repeat(p, n - 1)

(***************************************************************************)
(* The three patterns.  Each XEnd(s, i) is the index of the last token of  *)
(* the match of pattern X that starts at s[i], and 0 when none starts      *)
(* there.                                                                  *)
(***************************************************************************)
\* github_link_pattern: blob/(revision)/([^\s\)\]]*), the path may be empty
GithubLinkEnd(s, i) ==
    LET b == i + Len(BlobPrefix)
    IN  IF /\ StartsWithAt(s, i, BlobPrefix)
           /\ b + 1 <= Len(s)
           /\ IsRevision(s[b])
           /\ s[b + 1] = "/"
        THEN RunEnd(s, b + 2, PathStop)
        ELSE 0

\* folder_link_pattern: tree/[^/\s]+/[^\s\)\]]*
FolderLinkEnd(s, i) ==
    LET b == i + Len(TreePrefix)
        r == RunEnd(s, b, SegmentStop)
    IN  IF /\ StartsWithAt(s, i, TreePrefix)
           /\ r >= b
           /\ r + 1 <= Len(s)
           /\ s[r + 1] = "/"
        THEN RunEnd(s, r + 2, PathStop)
        ELSE 0

\* github_pattern of the scanner: blob/[^/\s]+/[^\s\)\]]+, the path is not empty
ScanLinkEnd(s, i) ==
    LET b == i + Len(BlobPrefix)
        r == RunEnd(s, b, SegmentStop)
        e == RunEnd(s, r + 2, PathStop)
    IN  IF /\ StartsWithAt(s, i, BlobPrefix)
           /\ r >= b
           /\ r + 1 <= Len(s)
           /\ s[r + 1] = "/"
           /\ e >= r + 2
        THEN e
        ELSE 0

(***************************************************************************)
(* convert_to_relative_path                                                *)
(***************************************************************************)
\* index of the last token of the first /blob/[^/]+/ at or after i, 0 if none
RECURSIVE BlobSegmentEnd(_, _)
BlobSegmentEnd(s, i) ==
    IF i > Len(s) THEN 0
    ELSE LET r == RunEnd(s, i + 3, {"/"})
         IN  IF /\ StartsWithAt(s, i, <<"/", "blob", "/">>)
                /\ r >= i + 3
                /\ r + 1 <= Len(s)
             THEN r + 1
             ELSE BlobSegmentEnd(s, i + 1)

\* re.sub(r'.*?/blob/[^/]+/', '', full_path): every match is removed, each
\* one reaching from the end of the one before it to the next /blob/x/
RECURSIVE StripBlob(_)
StripBlob(s) ==
    LET e == BlobSegmentEnd(s, 1)
    IN  IF e = 0 THEN s ELSE StripBlob(SubSeq(s, e + 1, Len(s)))

\* os.path.dirname: what precedes the last "/", without its trailing slashes
RECURSIVE LastSlash(_, _)
LastSlash(p, i) == IF i = 0 \/ p[i] = "/" THEN i ELSE LastSlash(p, i - 1)

RECURSIVE RStripSlash(_)
RStripSlash(p) ==
    IF p # <<>> /\ p[Len(p)] = "/" THEN RStripSlash(SubSeq(p, 1, Len(p) - 1)) ELSE p

Dirname(p) ==
    LET head == SubSeq(p, 1, LastSlash(p, Len(p)))
    IN  IF RStripSlash(head) = <<>> THEN head ELSE RStripSlash(head)

\* a variant that counts the separators of the directory, not its segments
LevelsUpSeparators(dir) == Cardinality({i \in 1..Len(dir) : dir[i] = "/"})

\* len(notebook_dir.split('/'))
LevelsUp(dir) == Cardinality({i \in 1..Len(dir) : dir[i] = "/"}) + 1

RelativePrefix(notebook_path) ==
    LET notebook_dir == Dirname(notebook_path)
    IN  IF notebook_dir # <<>>
        THEN Repeat(<<"..", "/">>, LevelsUp(notebook_dir))
        ELSE <<".", "/">>

convert_to_relative_path(full_path, notebook_path) ==
    RelativePrefix(notebook_path) \o StripBlob(full_path)


(***************************************************************************)
(* The line pass of update_links_in_notebook                               *)
(***************************************************************************)
\* a variant without the check for folder links
IsPreservedLineNoFolder(line) ==
    \/ Contains(line, ArchiveMarker)
    \/ Contains(line, HttpsScheme) /\ ~Contains(line, RepoName)

\* the three checks that make a line pass through untouched
IsPreservedLine(line) ==
    \/ Contains(line, ArchiveMarker)
    \/ \E i \in 1..Len(line) : FolderLinkEnd(line, i) # 0
    \/ Contains(line, HttpsScheme) /\ ~Contains(line, RepoName)

\* s[j..] is "](" full_url ")"
ClosesLinkAt(s, j, full_url) ==
    /\ j + 2 + Len(full_url) <= Len(s)
    /\ s[j] = "]"
    /\ s[j + 1] = "("
    /\ s[j + 2 + Len(full_url)] = ")"
    /\ StartsWithAt(s, j + 2, full_url)

\* the first j at or after from where "](" full_url ")" starts, 0 if none
RECURSIVE FirstClose(_, _, _)
FirstClose(s, from, full_url) ==
    IF from > Len(s) THEN 0
    ELSE IF ClosesLinkAt(s, from, full_url) THEN from
    ELSE FirstClose(s, from + 1, full_url)

\* the first "[" at or after from that has a "](" full_url ")" after it
RECURSIVE FirstOpen(_, _, _)
FirstOpen(s, from, full_url) ==
    IF from > Len(s) THEN 0
    ELSE IF s[from] = "[" /\ FirstClose(s, from + 1, full_url) # 0 THEN from
    ELSE FirstOpen(s, from + 1, full_url)

\* re.search(r'\[(.*?)\]\(' + re.escape(full_url) + r'\)', line): the places
\* (i, j) of the "[" and the "]" of the match, <<0, 0>> when there is none.
\* The search takes the first "[" that has a closing "](url)" after it, and
\* the lazy group takes the nearest such closing.
LinkTextMatch(line, full_url) ==
    LET i == FirstOpen(line, 1, full_url)
    IN  IF i = 0 THEN <<0, 0>> ELSE <<i, FirstClose(line, i + 1, full_url)>>

\* the callback of re.sub: what one match of github_link_pattern becomes
replace_github_link(full_url, line, filepath) ==
    LET rel_path == convert_to_relative_path(full_url, filepath)
        m == LinkTextMatch(line, full_url)
    IN  IF Contains(line, <<"[">>) /\ Contains(line, <<"]", "(">>) /\ m # <<0, 0>>
        THEN <<"[">> \o SubSeq(line, m[1] + 1, m[2] - 1) \o <<"]", "(">> \o rel_path \o <<")">>
        ELSE rel_path

\* where the first match of github_link_pattern at or after pos starts, 0 if none
RECURSIVE NextLink(_, _)
NextLink(line, pos) ==
    IF pos > Len(line) THEN 0
    ELSE IF GithubLinkEnd(line, pos) # 0 THEN pos
    ELSE NextLink(line, pos + 1)

\* re.sub(github_link_pattern, replace_github_link, line) from position pos on:
\* the matches are taken left to right and do not overlap
RECURSIVE SubFrom(_, _, _)
SubFrom(line, pos, filepath) ==
    LET m == NextLink(line, pos)
        e == GithubLinkEnd(line, m)
    IN  IF m = 0 THEN SubSeq(line, pos, Len(line))
        ELSE SubSeq(line, pos, m - 1)
               \o replace_github_link(SubSeq(line, m, e), line, filepath)
               \o SubFrom(line, e + 1, filepath)

\* lines 57-107: the new line for one line of a markdown cell
UpdatedLine(line, filepath) ==
    IF IsPreservedLine(line) THEN line ELSE SubFrom(line, 1, filepath)

\* the matches of a pattern in a line, left to right, as re.findall and
\* re.sub take them
PatternEnd(pattern, s, i) ==
    IF pattern = "github_link_pattern" THEN GithubLinkEnd(s, i)
    ELSE ScanLinkEnd(s, i)

RECURSIVE FindAll(_, _, _)
FindAll(pattern, s, pos) ==
    IF pos > Len(s) THEN <<>>
    ELSE LET e == PatternEnd(pattern, s, pos)
         IN  IF e = 0 THEN FindAll(pattern, s, pos + 1)
             ELSE <<SubSeq(s, pos, e)>> \o FindAll(pattern, s, e + 1)


(***************************************************************************)
(* Notebooks.  A file is [json, cells]: json is FALSE for a file that      *)
(* json.load rejects; a cell is [cell_type, source], source being the      *)
(* list of lines.  NonStr stands for an element of `source` that is not a  *)
(* string (a number, null): `'gemini-1.5-archive' in line` and re.findall  *)
(* raise TypeError on it.                                                  *)
(***************************************************************************)
NonStr == <<"<not-a-string>">>

Unparseable == [json |-> FALSE, cells |-> <<>>]

\* a variant without the check of cell_type
IsMarkdownAny(cell) == cell.cell_type \in {"markdown", "code"}

IsMarkdown(cell) == cell.cell_type = "markdown"

\* a markdown cell whose pass over the lines raises
CellRaises(cell) ==
    IsMarkdown(cell) /\ \E i \in 1..Len(cell.source) : cell.source[i] = NonStr

\* lines of the cell the pass gets through: all of them, or those before
\* the first line that raises
LinesPassed(cell) ==
    {i \in 1..Len(cell.source) : \A j \in 1..i : cell.source[j] # NonStr}

\* cells the pass enters: all of them, or those up to the first that raises
CellsEntered(cells) ==
    {k \in 1..Len(cells) : \A j \in 1..(k - 1) : ~CellRaises(cells[j])}

\* the calls [full_path, rel_path] of convert_to_relative_path made for a cell
ConversionsOfCell(cell, filepath) ==
    IF ~IsMarkdown(cell) THEN {}
    ELSE UNION {
           IF IsPreservedLine(cell.source[i]) THEN {}
           ELSE LET matches == FindAll("github_link_pattern", cell.source[i], 1)
                IN  {[full_path |-> matches[n],
                      rel_path |-> convert_to_relative_path(matches[n], filepath)] :
                        n \in 1..Len(matches)}
           : i \in LinesPassed(cell)}

\* lines 49-109 of update_links_in_notebook: [raised, modified, cells, convs],
\* cells being the document in memory when the pass ended (with the lines
\* it did not reach as they were) and convs the calls of
\* convert_to_relative_path it made
UpdatePass(file, filepath) ==
    IF ~file.json
    THEN [raised |-> TRUE, modified |-> FALSE, cells |-> <<>>, convs |-> {}]
    ELSE
      LET cells == file.cells
          updated ==
            [k \in 1..Len(cells) |->
               IF IsMarkdown(cells[k]) /\ k \in CellsEntered(cells)
               THEN [cells[k] EXCEPT !.source =
                       [i \in 1..Len(cells[k].source) |->
                          IF i \in LinesPassed(cells[k])
                          THEN UpdatedLine(cells[k].source[i], filepath)
                          ELSE cells[k].source[i]]]
               ELSE cells[k]]
      IN  [raised |-> \E k \in 1..Len(cells) : CellRaises(cells[k]),
           convs |-> UNION {ConversionsOfCell(cells[k], filepath) : k \in CellsEntered(cells)},
           modified |-> updated # cells,
           cells |-> updated]

\* line.strip()
RECURSIVE Strip(_)
Strip(line) ==
    IF line # <<>> /\ Head(line) = " " THEN Strip(Tail(line))
    ELSE IF line # <<>> /\ line[Len(line)] = " " THEN Strip(SubSeq(line, 1, Len(line) - 1))
    ELSE line

\* a variant of the scan that skips the lines the rewriter preserves
RECURSIVE CellEntriesSkipPreserved(_, _, _)
CellEntriesSkipPreserved(cell, k, i) ==
    IF i > Len(cell.source) THEN <<>>
    ELSE LET matches == IF IsPreservedLine(cell.source[i]) THEN <<>>
                        ELSE FindAll("github_pattern", cell.source[i], 1)
         IN  (IF matches # <<>>
              THEN <<[cell |-> k - 1, line |-> i - 1,
                      content |-> Strip(cell.source[i]), links |-> matches]>>
              ELSE <<>>) \o CellEntriesSkipPreserved(cell, k, i + 1)

\* the entries of scan_for_github_links for the lines i.. of cell number k
RECURSIVE CellEntries(_, _, _)
CellEntries(cell, k, i) ==
    IF i > Len(cell.source) THEN <<>>
    ELSE LET matches == FindAll("github_pattern", cell.source[i], 1)
         IN  (IF matches # <<>>
              THEN <<[cell |-> k - 1, line |-> i - 1,
                      content |-> Strip(cell.source[i]), links |-> matches]>>
              ELSE <<>>) \o CellEntries(cell, k, i + 1)

RECURSIVE EntriesFrom(_, _)
EntriesFrom(cells, k) ==
    IF k > Len(cells) THEN <<>>
    ELSE (IF IsMarkdown(cells[k]) THEN CellEntries(cells[k], k, 1) ELSE <<>>)
            \o EntriesFrom(cells, k + 1)

\* scan_for_github_links: the entries, [] when reading or the pass raises
scan_for_github_links(file) ==
    IF ~file.json \/ \E k \in 1..Len(file.cells) : CellRaises(file.cells[k])
    THEN <<>>
    ELSE EntriesFrom(file.cells, 1)


(***************************************************************************)
(* The trees main runs on.                                                 *)
(***************************************************************************)
\* the i-th notebook of the tree, depth directories down: d/d/nb<i>
NotebookPath(depth, i) == Repeat(<<"d", "/">>, depth) \o <<"nb" \o ToString(i)>>

\* a link to <path> at revision rev
BlobUrl(rev, path) == BlobPrefix \o <<rev, "/">> \o path

\* [text](url)
MarkdownLink(text, url) == <<"[">> \o text \o <<"]", "(">> \o url \o <<")">>

PlainLink == BlobUrl("main", <<"a">>)

\* what a generated line is made of
Items ==
    { <<"x">>,
      PlainLink,
      BlobUrl("main", <<>>),
      BlobUrl("main", <<"a", "/", "blob", "/", "b", "/", "c">>),
      BlobUrl("dev", <<"a">>),
      BlobUrl("main", PlainLink),
      MarkdownLink(<<"x">>, PlainLink),
      MarkdownLink(PlainLink, PlainLink),
      TreePrefix \o <<"main", "/", "a">>,
      TreePrefix \o <<"main">>,
      HttpsScheme \o <<"example.com", "/", "a">>,
      ArchiveMarker }

\* the items with a blank between them
RECURSIVE JoinItems(_)
JoinItems(items) ==
    IF items = <<>> THEN <<>>
    ELSE IF Len(items) = 1 THEN items[1]
    ELSE items[1] \o <<" ">> \o JoinItems(Tail(items))

\* the lines of at most n items
Lines(n) == {JoinItems(items) : items \in UNION {[1..k -> Items] : k \in 0..n}}

Markdown(source) == [cell_type |-> "markdown", source |-> source]

Code(source) == [cell_type |-> "code", source |-> source]

Notebook(cells) == [json |-> TRUE, cells |-> cells]

\* notebooks of several cells and lines, and notebooks that raise
Catalogue ==
    { Notebook(<<Markdown(<<PlainLink>>)>>),
      Notebook(<<Markdown(<<BlobUrl("main", <<>>)>>)>>),
      Notebook(<<Code(<<PlainLink>>), Markdown(<<<<"x">>, PlainLink, <<"x">>>>)>>),
      Notebook(<<Markdown(<<PlainLink>>), Markdown(<<<<"x">>, NonStr>>)>>),
      Notebook(<<Markdown(<<ArchiveMarker \o <<" ">> \o PlainLink, PlainLink>>)>>),
      Notebook(<<Markdown(<<<<"x">>>>), Code(<<NonStr>>)>>),
      Unparseable }

Min(a, b) == IF a < b THEN a ELSE b

\* a tree: the paths glob returns, in order, and the file at each path
\* one notebook of one markdown line: every line at the root, the lines of
\* one item in every directory
LineTrees ==
    UNION {{[paths |-> <<NotebookPath(depth, 1)>>,
             files |-> <<Notebook(<<Markdown(<<line>>)>>)>>] :
               line \in Lines(IF depth = 0 THEN MaxItems ELSE 1)} :
             depth \in 0..MaxDepth}

CatalogueTrees ==
    {[paths |-> [i \in 1..Len(files) |-> NotebookPath(Min(i - 1, MaxDepth), i)],
      files |-> files] :
        files \in UNION {[1..n -> Catalogue] : n \in 0..MaxDocs}}

Trees == LineTrees \cup CatalogueTrees


(***************************************************************************)
(* State.                                                                  *)
(***************************************************************************)
VARIABLES
    notebooks,       \* what glob.glob("**/*.ipynb") returns, in its order
    disk,            \* the file at each path
    phase,           \* where main is: "idle" (not running), "scan", "update"
    idx,             \* the place in notebooks of the loop main is in
    all_links,       \* main's all_links: path -> entries
    modified_files,  \* main's modified_files
    called,          \* the paths the second loop of this run has passed to
                     \* update_links_in_notebook, in order
    outcome,         \* how the last run of main ended
    runs,            \* runs of main started
    rewritten,       \* paths some call has written back in full
    last             \* the last call of scan_for_github_links or
                     \* update_links_in_notebook: arguments, effects, result

vars == <<notebooks, disk, phase, idx, all_links, modified_files, called,
          outcome, runs, rewritten, last>>

NoCall ==
    [fn |-> "none", filepath |-> <<>>, dry_run |-> FALSE, before |-> Unparseable,
     memory |-> <<>>, after |-> Unparseable, pass_raised |-> FALSE,
     modified |-> FALSE, attempted |-> FALSE, opened |-> FALSE,
     write_failed |-> FALSE, returned |-> FALSE,
     convs |-> {}, links |-> <<>>, prior |-> FALSE]

Init ==
    /\ \E tree \in Trees :
         /\ notebooks = tree.paths
         /\ disk = [p \in {tree.paths[i] : i \in 1..Len(tree.paths)} |->
                      tree.files[CHOOSE i \in 1..Len(tree.paths) : tree.paths[i] = p]]
    /\ phase = "idle"
    /\ idx = 0
    /\ all_links = <<>>
    /\ modified_files = <<>>
    /\ called = <<>>
    /\ outcome = "none"
    /\ runs = 0
    /\ rewritten = {}
    /\ last = NoCall

(***************************************************************************)
(* update_links_in_notebook(filepath, dry_run) as one step.  io is what    *)
(* the file system does when the notebook is written back: "ok",           *)
(* "open_fails" (open(filepath, 'w') raises, the file is as it was) or     *)
(* "dump_fails" (json.dump raises after open truncated the file).          *)
(***************************************************************************)
WriteOutcomes == {"ok", "open_fails", "dump_fails"}

\* a variant that writes whether or not a line changed
UpdateCallAlwaysWrites(pass, filepath, dry_run, io) ==
    LET before == disk[filepath]
        writes == ~pass.raised /\ ~dry_run
        after == IF ~writes \/ io = "open_fails" THEN before
                 ELSE IF io = "dump_fails" THEN Unparseable
                 ELSE Notebook(pass.cells)
    IN  [fn |-> "update", filepath |-> filepath, dry_run |-> dry_run,
         before |-> before, memory |-> pass.cells, after |-> after,
         pass_raised |-> pass.raised, modified |-> pass.modified,
         attempted |-> writes,
         opened |-> writes /\ io # "open_fails",
         write_failed |-> writes /\ io # "ok",
         returned |-> ~pass.raised /\ pass.modified /\ ~(writes /\ io # "ok"),
         convs |-> pass.convs, links |-> <<>>,
         prior |-> filepath \in rewritten]

\* a variant whose except clause returns `modified`
UpdateCallReturnsModified(pass, filepath, dry_run, io) ==
    LET before == disk[filepath]
        writes == ~pass.raised /\ pass.modified /\ ~dry_run
        after == IF ~writes \/ io = "open_fails" THEN before
                 ELSE IF io = "dump_fails" THEN Unparseable
                 ELSE Notebook(pass.cells)
    IN  [fn |-> "update", filepath |-> filepath, dry_run |-> dry_run,
         before |-> before, memory |-> pass.cells, after |-> after,
         pass_raised |-> pass.raised, modified |-> pass.modified,
         attempted |-> writes,
         opened |-> writes /\ io # "open_fails",
         write_failed |-> writes /\ io # "ok",
         returned |-> pass.modified,
         convs |-> pass.convs, links |-> <<>>,
         prior |-> filepath \in rewritten]

\* lines 111-120: the write, the result and the except clause, after the pass.
\* memory is the notebook in memory when the call ends, attempted says that
\* line 112 was reached, opened that open(filepath, 'w') succeeded.
UpdateCall(pass, filepath, dry_run, io) ==
    LET before == disk[filepath]
        writes == ~pass.raised /\ pass.modified /\ ~dry_run
        after == IF ~writes \/ io = "open_fails" THEN before
                 ELSE IF io = "dump_fails" THEN Unparseable
                 ELSE Notebook(pass.cells)
    IN  [fn |-> "update", filepath |-> filepath, dry_run |-> dry_run,
         before |-> before, memory |-> pass.cells, after |-> after,
         pass_raised |-> pass.raised, modified |-> pass.modified,
         attempted |-> writes,
         opened |-> writes /\ io # "open_fails",
         write_failed |-> writes /\ io # "ok",
         returned |-> ~pass.raised /\ pass.modified /\ ~(writes /\ io # "ok"),
         convs |-> pass.convs, links |-> <<>>,
         prior |-> filepath \in rewritten]

ScanCall(filepath) ==
    [NoCall EXCEPT !.fn = "scan", !.filepath = filepath,
                   !.before = disk[filepath], !.after = disk[filepath],
                   !.memory = disk[filepath].cells,
                   !.pass_raised = ~disk[filepath].json
                       \/ \E k \in 1..Len(disk[filepath].cells) :
                             CellRaises(disk[filepath].cells[k]),
                   !.links = scan_for_github_links(disk[filepath]),
                   !.prior = filepath \in rewritten]

(***************************************************************************)
(* main                                                                    *)
(***************************************************************************)
\* lines 154-162: glob, return when there is no notebook, else start the scan
StartMain ==
    /\ phase = "idle"
    /\ runs < MaxRuns
    /\ runs' = runs + 1
    /\ all_links' = <<>>
    /\ modified_files' = <<>>
    /\ called' = <<>>
    /\ last' = NoCall
    /\ IF notebooks = <<>>
       THEN /\ phase' = "idle"
            /\ outcome' = "no_notebooks"
            /\ idx' = 0
       ELSE /\ phase' = "scan"
            /\ outcome' = "running"
            /\ idx' = 1
    /\ UNCHANGED <<notebooks, disk, rewritten>>

\* lines 163-166: one turn of the scan loop
ScanStep ==
    /\ phase = "scan"
    /\ idx <= Len(notebooks)
    /\ LET filepath == notebooks[idx]
           call == ScanCall(filepath)
       IN  /\ last' = call
           /\ all_links' =
                IF call.links # <<>>
                THEN [p \in DOMAIN all_links \cup {filepath} |->
                        IF p = filepath THEN call.links ELSE all_links[p]]
                ELSE all_links
    /\ idx' = idx + 1
    /\ UNCHANGED <<notebooks, disk, phase, modified_files, called, outcome, runs,
                   rewritten>>

\* lines 168-183: return when the scan found nothing, else go on to update
AfterScan ==
    /\ phase = "scan"
    /\ idx > Len(notebooks)
    /\ IF DOMAIN all_links = {}
       THEN /\ phase' = "idle"
            /\ outcome' = "no_links"
            /\ idx' = 0
       ELSE /\ phase' = "update"
            /\ outcome' = "running"
            /\ idx' = 1
    /\ UNCHANGED <<notebooks, disk, all_links, modified_files, called, runs,
                   rewritten, last>>

\* lines 187-189: one turn of the update loop
UpdateStep ==
    /\ phase = "update"
    /\ idx <= Len(notebooks)
    /\ LET filepath == notebooks[idx]
           pass == UpdatePass(disk[filepath], filepath)
       IN  \E io \in WriteOutcomes :
             LET call == UpdateCall(pass, filepath, FALSE, io)
             IN
             /\ last' = call
             /\ disk' = [disk EXCEPT ![filepath] = call.after]
             /\ modified_files' = IF call.returned
                                  THEN Append(modified_files, filepath)
                                  ELSE modified_files
             /\ called' = Append(called, filepath)
             /\ rewritten' = IF call.opened /\ ~call.write_failed
                             THEN rewritten \cup {filepath}
                             ELSE rewritten
    /\ idx' = idx + 1
    /\ UNCHANGED <<notebooks, phase, all_links, outcome, runs>>

\* lines 191-200: the report, and main returns
Finish ==
    /\ phase = "update"
    /\ idx > Len(notebooks)
    /\ phase' = "idle"
    /\ outcome' = "finished"
    /\ idx' = 0
    /\ UNCHANGED <<notebooks, disk, all_links, modified_files, called, runs,
                   rewritten, last>>

\* a caller other than main invokes update_links_in_notebook(path, dry_run=True)
DryRun ==
    /\ phase = "idle"
    /\ \E i \in 1..Len(notebooks) :
         last' = UpdateCall(UpdatePass(disk[notebooks[i]], notebooks[i]),
                            notebooks[i], TRUE, "ok")
    /\ UNCHANGED <<notebooks, disk, phase, idx, all_links, modified_files, called,
                   outcome, runs, rewritten>>

Next ==
    \/ StartMain
    \/ ScanStep
    \/ AfterScan
    \/ UpdateStep
    \/ Finish
    \/ DryRun

Spec == Init /\ [][Next]_vars


(***************************************************************************)
(* Vocabulary of the properties.                                           *)
(***************************************************************************)
\* the places <<cell, line>> of the lines of the markdown cells
MarkdownPlaces(cells) ==
    UNION {{<<k, i>> : i \in 1..Len(cells[k].source)} :
             k \in {j \in 1..Len(cells) : cells[j].cell_type = "markdown"}}

LineAt(cells, place) == cells[place[1]].source[place[2]]

\* a call of update_links_in_notebook has just returned
Updated == last.fn = "update"

\* ... and its pass over the cells did not raise
Passed == Updated /\ ~last.pass_raised

\* some markdown line in memory differs from the line read
SomeLineChanged ==
    \E place \in MarkdownPlaces(last.before.cells) :
       LineAt(last.memory, place) # LineAt(last.before.cells, place)

\* the line holds a substring the rewriter's pattern matches
HasRewriterLink(line) ==
    \E i \in 1..Len(line) :
       /\ StartsWithAt(line, i, BlobPrefix)
       /\ i + Len(BlobPrefix) + 1 <= Len(line)
       /\ line[i + Len(BlobPrefix)] \in {"c0ffee1", "main", "master", "old"}
       /\ line[i + Len(BlobPrefix) + 1] = "/"

\* the line holds a substring the scanner's pattern matches:
\* blob/<segment>/<path>, neither of them empty
HasScannerLink(line) ==
    \E i \in 1..Len(line) : \E j \in (i + Len(BlobPrefix) + 1)..(Len(line) - 1) :
       /\ StartsWithAt(line, i, BlobPrefix)
       /\ \A k \in (i + Len(BlobPrefix))..(j - 1) : line[k] \notin {"/", " "}
       /\ line[j] = "/"
       /\ line[j + 1] \notin {" ", ")", "]"}

\* the exception lines as the specification describes them
HasArchiveMarker(line) == \E i \in 1..Len(line) : line[i] = "gemini-1.5-archive"

HasTreeLink(line) ==
    \E i \in 1..Len(line) :
       /\ StartsWithAt(line, i, TreePrefix)
       /\ i + Len(TreePrefix) <= Len(line)
       /\ line[i + Len(TreePrefix)] \notin {"/", " "}

HasExternalUrl(line) ==
    \E i \in 1..Len(line) :
       StartsWithAt(line, i, HttpsScheme) /\ ~StartsWithAt(line, i, RepoUrl)

SpecExceptionLine(line) ==
    HasArchiveMarker(line) \/ HasTreeLink(line) \/ HasExternalUrl(line)

\* the exception lines the code knows: the tree link needs a "/" after
\* its first segment, and an external link counts only on a line that does
\* not name the repository at all
HasTreeLinkWithPath(line) ==
    \E i \in 1..Len(line) : \E j \in (i + Len(TreePrefix) + 1)..Len(line) :
       /\ StartsWithAt(line, i, TreePrefix)
       /\ \A k \in (i + Len(TreePrefix))..(j - 1) : line[k] \notin {"/", " "}
       /\ line[j] = "/"

CodeExceptionLine(line) ==
    \/ HasArchiveMarker(line)
    \/ HasTreeLinkWithPath(line)
    \/ /\ \E i \in 1..Len(line) : StartsWithAt(line, i, HttpsScheme)
       /\ ~\E i \in 1..Len(line) : StartsWithAt(line, i, RepoName)

\* the spans <<first, last>> of the links the rewriter replaces in a line
RECURSIVE LinkSpans(_, _)
LinkSpans(line, pos) ==
    LET m == NextLink(line, pos)
    IN  IF m = 0 THEN {}
        ELSE {<<m, GithubLinkEnd(line, m)>>}
               \cup LinkSpans(line, GithubLinkEnd(line, m) + 1)

\* the link at span is the url of a markdown link [text](url)
IsEmbedded(line, span) ==
    /\ span[1] >= 4
    /\ line[span[1] - 1] = "("
    /\ line[span[1] - 2] = "]"
    /\ \E i \in 1..(span[1] - 3) :
          /\ line[i] = "["
          /\ \A k \in (i + 1)..(span[1] - 3) : line[k] \notin {"[", "]"}
    /\ span[2] + 1 <= Len(line)
    /\ line[span[2] + 1] = ")"

\* the line with every link replaced by its relative path, and nothing else
RECURSIVE UrlsReplaced(_, _, _)
UrlsReplaced(line, pos, filepath) ==
    LET m == NextLink(line, pos)
        e == GithubLinkEnd(line, m)
    IN  IF m = 0 THEN SubSeq(line, pos, Len(line))
        ELSE SubSeq(line, pos, m - 1)
               \o convert_to_relative_path(SubSeq(line, m, e), filepath)
               \o UrlsReplaced(line, e + 1, filepath)

Range(seq) == {seq[i] : i \in 1..Len(seq)}

(***************************************************************************)
(* Properties.                                                             *)
(***************************************************************************)
\* C1: a markdown line that is not an exception line and whose links are all
\* embedded as [text](url) is rewritten to the same line with only the url of
\* each link replaced by the relative path: [text](relative-path), the text
\* once.
C1_MarkdownLinkPreserved ==
    Passed =>
      \A place \in MarkdownPlaces(last.before.cells) :
         LET line == LineAt(last.before.cells, place)
         IN  (/\ ~CodeExceptionLine(line)
              /\ LinkSpans(line, 1) # {}
              /\ \A span \in LinkSpans(line, 1) : IsEmbedded(line, span))
             => LineAt(last.memory, place) = UrlsReplaced(line, 1, last.filepath)

\* C2: a call of update_links_in_notebook on a file an earlier call wrote back
\* changes no line, returns False and does not write.
C2_SecondRunChangesNothing ==
    (Updated /\ ~last.dry_run /\ last.prior /\ last.before.json) =>
      /\ ~SomeLineChanged
      /\ ~last.returned
      /\ ~last.attempted
      /\ \A place \in MarkdownPlaces(last.before.cells) :
            LET line == LineAt(last.before.cells, place)
            IN  CodeExceptionLine(line) \/ ~HasRewriterLink(line)

\* C3, as the specification has it: a line with the archive marker, a tree
\* link or a link to another site is left as it is
C3_SpecExceptionLinesUnaltered ==
    Passed =>
      \A place \in MarkdownPlaces(last.before.cells) :
         SpecExceptionLine(LineAt(last.before.cells, place))
         => LineAt(last.memory, place) = LineAt(last.before.cells, place)

\* C3, amended: a line with the archive marker, with a tree link that has a
\* "/" after its first segment, or with "https://" and no "google-gemini/cookbook"
\* anywhere, is left as it is, whatever blob links it holds, in memory and on
\* disk
C3_CodeExceptionLinesUnaltered ==
    Passed =>
      \A place \in MarkdownPlaces(last.before.cells) :
         CodeExceptionLine(LineAt(last.before.cells, place))
         => /\ LineAt(last.memory, place) = LineAt(last.before.cells, place)
            /\ last.after.json =>
                 LineAt(last.after.cells, place) = LineAt(last.before.cells, place)

C3_Witness ==
    /\ Passed
    /\ last.returned
    /\ \E place \in MarkdownPlaces(last.before.cells) :
          /\ HasArchiveMarker(LineAt(last.before.cells, place))
          /\ HasRewriterLink(LineAt(last.before.cells, place))
          /\ LineAt(last.after.cells, place) = LineAt(last.before.cells, place)

\* C4, as the specification has it: the scanner adds no entry for an
\* exception line
C4_ExceptionLinesUnreported ==
    last.fn = "scan" =>
      \A n \in 1..Len(last.links) :
         ~SpecExceptionLine(
            LineAt(last.before.cells, <<last.links[n].cell + 1, last.links[n].line + 1>>))

\* C4, amended: the scanner knows no exception; when its pass does not raise
\* it adds one entry for each markdown line that holds a link of its own
\* pattern, exception line or not, and none for any other line
C4_EveryBlobLineReported ==
    (last.fn = "scan" /\ ~last.pass_raised) =>
      {<<last.links[n].cell + 1, last.links[n].line + 1>> : n \in 1..Len(last.links)}
        = {place \in MarkdownPlaces(last.before.cells) :
             HasScannerLink(LineAt(last.before.cells, place))}

C4_Witness ==
    /\ last.fn = "scan"
    /\ \E n \in 1..Len(last.links) :
          HasArchiveMarker(
            LineAt(last.before.cells, <<last.links[n].cell + 1, last.links[n].line + 1>>))

\* the segments of the directory of a path d/d/nb: its "/"
DirectorySegments(path) == Cardinality({i \in 1..Len(path) : path[i] = "/"})

\* C5: every relative path convert_to_relative_path returns is n times "../"
\* put before the path it took from the link, n being the number of segments
\* of the notebook's directory, and "./" put before it for a notebook at the
\* root
C5_RelativePrefix ==
    Updated =>
      \A c \in last.convs :
         LET n == DirectorySegments(last.filepath)
             prefix == IF n = 0 THEN <<".", "/">>
                       ELSE [i \in 1..(2 * n) |-> IF i % 2 = 1 THEN ".." ELSE "/"]
         IN  /\ Len(c.rel_path) >= Len(prefix)
             /\ SubSeq(c.rel_path, 1, Len(prefix)) = prefix
             /\ SubSeq(c.rel_path, Len(prefix) + 1, Len(c.rel_path))
                  = StripBlob(c.full_path)

C5_Witness ==
    /\ Updated
    /\ last.convs # {}
    /\ DirectorySegments(last.filepath) = 2
    /\ \E c \in last.convs : SubSeq(c.rel_path, 1, 4) = <<"..", "/", "..", "/">>

\* C6, as the specification has it: the file is opened for writing exactly
\* when a line changed and dry_run is False, stays as it was otherwise, and
\* the flag returned is True exactly when a line changed
C6_WrittenIffChanged ==
    Updated =>
      /\ last.attempted <=> (SomeLineChanged /\ ~last.dry_run)
      /\ ~(SomeLineChanged /\ ~last.dry_run) => last.after = last.before
      /\ last.returned <=> SomeLineChanged

\* C6, amended: the file is opened for writing exactly when the pass did not
\* raise, a line changed and dry_run is False; it stays as it was otherwise;
\* the flag returned is True exactly when the pass did not raise, a line
\* changed and no write failed
C6_WrittenIffPassedAndChanged ==
    Updated =>
      /\ last.attempted <=> (~last.pass_raised /\ SomeLineChanged /\ ~last.dry_run)
      /\ ~last.attempted => last.after = last.before
      /\ last.returned <=> (~last.pass_raised /\ SomeLineChanged /\ ~last.write_failed)

C6_Witness ==
    /\ Updated
    /\ SomeLineChanged
    /\ ~last.dry_run
    /\ last.attempted
    /\ last.returned
    /\ last.after # last.before

\* what C7 says of the cells `got` against the cells `was`
FrameKept(was, got) ==
    /\ Len(got) = Len(was)
    /\ \A k \in 1..Len(was) :
          /\ got[k].cell_type = was[k].cell_type
          /\ was[k].cell_type # "markdown" => got[k] = was[k]
          /\ Len(got[k].source) = Len(was[k].source)
    /\ \A place \in MarkdownPlaces(was) :
          LET line == LineAt(was, place)
          IN  (~HasRewriterLink(line) \/ CodeExceptionLine(line))
              => LineAt(got, place) = line

\* C7: after a call whose write did not fail, the notebook in memory and the
\* notebook on disk have the cells of the notebook read, in their order, the
\* cells that are not markdown as they were, the markdown cells with as many
\* lines, and every line without a qualifying link as it was
C7_Frame ==
    (Updated /\ last.before.json) =>
      /\ ~last.pass_raised => FrameKept(last.before.cells, last.memory)
      /\ ~last.write_failed =>
           /\ last.after.json
           /\ FrameKept(last.before.cells, last.after.cells)
           /\ last.after = disk[last.filepath]

C7_Witness ==
    /\ Updated
    /\ last.opened
    /\ ~last.write_failed
    /\ last.after # last.before
    /\ \E k \in 1..Len(last.before.cells) :
          /\ last.before.cells[k].cell_type = "code"
          /\ \E i \in 1..Len(last.before.cells[k].source) :
                HasRewriterLink(last.before.cells[k].source[i])
    /\ \E k \in 1..Len(last.before.cells) :
          /\ last.before.cells[k].cell_type = "markdown"
          /\ Len(last.before.cells[k].source) >= 2

\* C8: in the second loop of main a notebook whose read or pass raises is not
\* written and not listed as modified, and the loop goes on: the calls made
\* so far are the notebooks before idx in glob's order, and main finishes
\* only after calling update_links_in_notebook on each
C8_FailureIsolation ==
    /\ (Updated /\ ~last.dry_run /\ last.pass_raised) =>
          /\ ~last.attempted
          /\ ~last.returned
          /\ last.after = last.before
          /\ disk[last.filepath] = last.before
          /\ last.filepath \notin Range(modified_files)
          /\ phase = "update" \/ (outcome = "finished" /\ called = notebooks)
    /\ phase = "update" =>
          /\ idx <= Len(notebooks) + 1
          /\ called = SubSeq(notebooks, 1, idx - 1)
    /\ outcome = "finished" => called = notebooks

C8_Witness ==
    /\ outcome = "finished"
    /\ Len(notebooks) = 2
    /\ called = notebooks
    /\ ~disk[notebooks[1]].json
    /\ notebooks[1] \notin rewritten
    /\ modified_files = <<notebooks[2]>>

\* C9: every notebook the second loop lists as modified is a key of
\* all_links, and every line the call changed has an entry of the scan
C9_ScanCoversRewrite ==
    /\ Range(modified_files) \subseteq DOMAIN all_links
    /\ (Passed /\ ~last.dry_run /\ phase = "update") =>
          \A place \in MarkdownPlaces(last.before.cells) :
             LineAt(last.memory, place) # LineAt(last.before.cells, place)
             => /\ last.filepath \in DOMAIN all_links
                /\ \E n \in 1..Len(all_links[last.filepath]) :
                      /\ all_links[last.filepath][n].cell = place[1] - 1
                      /\ all_links[last.filepath][n].line = place[2] - 1

\* C10: the relative path of a link blob/<revision>/<path> is the prefix
\* followed by exactly <path>, the third group of the pattern
C10_WholePathKept ==
    Updated =>
      \A c \in last.convs :
         c.rel_path = RelativePrefix(last.filepath)
                        \o SubSeq(c.full_path, Len(BlobPrefix) + 3, Len(c.full_path))

=============================================================================
